---- MODULE Spec2Model ----
(***************************************************************************)
(* A model of src/main.py (class ProjectFetcher and main): the snapshot    *)
(* comparison of compare_contract_amounts, the classification done by      *)
(* save_comparison_report and display_changes, and the per-project fetch   *)
(* with retry of fetch_project_details / process_projects_in_batches.      *)
(*                                                                         *)
(* Values.  A spreadsheet cell that holds a number n is the tuple <<n>>,   *)
(* an empty cell (Python None) is <<>>.  An ID cell is a natural number,   *)
(* 0 standing for every falsy ID (None, 0, "").  Python floats are         *)
(* modelled by exact rationals <<numerator, denominator>>; amounts are     *)
(* integers.  A Python str built by concatenation is a sequence of tokens, *)
(* " " being the blank token.                                              *)
(***************************************************************************)
EXTENDS Integers, Sequences, FiniteSets, TLC

\* ------------------------------------------------------------------ bounds
\* Phase IDs are 1..MaxPhaseID, unique within their project only.
MaxPhaseID == 1

ProjectIDs == {1, 2}

\* fetch_projects returns at most MaxProjects projects.
MaxProjects == 3

\* The attributes __init__ sets.
BATCH_SIZE == 25
retry_count == 3
retry_delay == 1
PhaseIDs == 1..MaxPhaseID

\* Amount cells of the broad-shape inputs: empty, zero, positive, negative.
AmountCells == {<<>>, <<0>>, <<100>>, <<-100>>}
\* Amounts of the classification inputs (both files hold the same keys).
ClassifyAmounts == {-100, 0, 50, 80, 90, 95, 100, 110, 150}
Statuses == {"Active", "Closed"}

\* ------------------------------------------------------------- arithmetic
Abs(x) == IF x < 0 THEN -x ELSE x

RECURSIVE GCD(_, _)
GCD(a, b) == IF b = 0 THEN a ELSE GCD(b, a % b)

\* The rational n/d (d # 0) in lowest terms with a positive denominator.
Rat(n, d) ==
    LET g == GCD(Abs(n), Abs(d))
        s == IF d < 0 THEN -1 ELSE 1
    IN  <<(s * n) \div g, (s * d) \div g>>

\* Python's true division a / b of two numbers, b # 0.
TrueDiv(a, b) == Rat(a, b)
\* r * k for a rational r and an integer k.
RatTimes(r, k) == Rat(r[1] * k, r[2])
\* abs(r)
RatAbs(r) == <<Abs(r[1]), r[2]>>
\* r >= k for a rational r and an integer k.
RatGeq(r, k) == r[1] >= k * r[2]

\* f"{x:.2f}": x rounded to two decimals (ties to even), as a number of
\* hundredths; f"{x:.2f}%" prints it followed by the percent sign.
Format2f(r) ==
    LET n == Abs(r[1]) * 100
        q == n \div r[2]
        m == n % r[2]
        up == (2 * m > r[2]) \/ (2 * m = r[2] /\ q % 2 = 1)
        h == IF up THEN q + 1 ELSE q
    IN  IF r[1] < 0 THEN -h ELSE h

\* ------------------------------------------------------------------ values
\* Truthiness of an ID cell: `if row[0].value`.
IsTruthy(v) == v # 0

\* `cell or 0` on an amount cell: None and 0 both give 0.
OrZero(cell) == IF cell = <<>> \/ cell = <<0>> THEN 0 ELSE cell[1]

\* str.strip() on a token sequence: blank tokens removed at both ends.
RECURSIVE LStrip(_)
LStrip(s) == IF s # <<>> /\ Head(s) = " " THEN LStrip(Tail(s)) ELSE s

RECURSIVE RStrip(_)
RStrip(s) ==
    IF s # <<>> /\ s[Len(s)] = " " THEN RStrip(SubSeq(s, 1, Len(s) - 1)) ELSE s

Strip(s) == RStrip(LStrip(s))

\* The orders in which a Python set can be iterated: every enumeration of
\* S without repetition.
Orders(S) ==
    {s \in [1..Cardinality(S) -> S] :
        \A i, j \in 1..Cardinality(S) : i # j => s[i] # s[j]}

\* The index of the last of the rows whose keys are `keys` that has key k (a
\* dict comprehension keeps the last value written for a key).
LastIndex(keys, k) ==
    CHOOSE i \in DOMAIN keys :
        /\ keys[i] = k
        /\ \A j \in DOMAIN keys : keys[j] = k => j <= i

\* ------------------------------------------------------------------- files
\* A workbook written by save_to_excel: the rows of its two sheets below the
\* header.  exists = FALSE is a path with no file.
NoFile == [exists |-> FALSE, Projects |-> <<>>, Phases |-> <<>>]

ProjectRow(id, amount) ==
    [ID |-> id, Description |-> "Desc", Amount |-> amount,
     Status |-> "Active", LastModified |-> "T"]

PhaseRow(pid, phid, amount, status) ==
    [ProjectID |-> pid, PhaseID |-> phid, Description |-> "PhDesc",
     Amount |-> amount, Status |-> status, LastModified |-> "T"]

Workbook(projects, phases) ==
    [exists |-> TRUE, Projects |-> projects, Phases |-> phases]

VARIABLES
    previous_data,   \* the file FILES["PREVIOUS"]
    new_data,        \* the file FILES["NEW"]
    changes,         \* the dictionary compare_contract_amounts returns
    console,         \* what main prints in its summary
    report,          \* the sheets save_comparison_report writes
    gui,             \* what display_changes shows
    pc,              \* main's position
    projects,        \* the project keys fetch_projects returned, in order
    batch_size,      \* self.BATCH_SIZE
    batch_start,     \* i of process_projects_in_batches
    idx,             \* idx of process_projects_in_batches (from 1)
    attempt,         \* attempt of the running fetch_project_details
    processed_data,  \* the list process_projects_in_batches builds
    calls,           \* requests sent so far for each project key
    errors,          \* the exceptions each project key's requests raised
    sleeps,          \* the backoff delays taken, in order
    failed,          \* the keys fetch_project_details returned None for
    in_flight,       \* requests awaiting their response
    batch_pauses,    \* the pauses taken between batches
    cycle,           \* the number of the run of main, from 1
    run_log,         \* the rotation and the commit this run has completed
    start_files,     \* what the two files held when this run started
    last_saved       \* the workbook the last successful save_to_excel wrote

diffVars == <<previous_data, new_data, changes, console, report, gui>>
fetchVars == <<projects, batch_size, batch_start, idx, attempt, processed_data,
               calls, errors, sleeps, failed, in_flight, batch_pauses>>
cycleVars == <<cycle, run_log, start_files, last_saved>>
vars == <<diffVars, fetchVars, cycleVars, pc>>

\* ------------------------------------------------ compare_contract_amounts
\* The value both loops use for a key missing on one side.
DefaultData ==
    [amount |-> <<0>>, description |-> "N/A", status |-> "N/A",
     last_modified |-> "N/A"]

\* dict.get(key, default)
DictGet(d, k, default) == IF k \in DOMAIN d THEN d[k] ELSE default

ProjectKey(row) == row.ID
PhaseKey(row) == <<row.ProjectID, row.PhaseID>>

\* old_projects / new_projects: the rows with a truthy ID, keyed by ID.
ProjectsDict(rows) ==
    [k \in {rows[i].ID : i \in {j \in DOMAIN rows : IsTruthy(rows[j].ID)}} |->
        LET r == rows[LastIndex([i \in DOMAIN rows |-> ProjectKey(rows[i])], k)]
        IN  [amount |-> r.Amount, description |-> r.Description,
             status |-> r.Status, last_modified |-> r.LastModified]]

\* old_phases / new_phases: the rows with a truthy project ID and a truthy
\* phase ID, keyed by (project ID, phase ID).
PhasesDict(rows) ==
    [k \in {PhaseKey(rows[i]) :
              i \in {j \in DOMAIN rows :
                       IsTruthy(rows[j].ProjectID) /\ IsTruthy(rows[j].PhaseID)}} |->
        LET r == rows[LastIndex([i \in DOMAIN rows |-> PhaseKey(rows[i])], k)]
        IN  [amount |-> r.Amount, description |-> r.Description,
             status |-> r.Status, last_modified |-> r.LastModified]]

\* The record the project loop appends for project_id.
ProjectChange(project_id, old_data, new_data_) ==
    [ID |-> project_id,
     Description |-> new_data_.description,
     Status |-> new_data_.status,
     OldAmount |-> OrZero(old_data.amount),
     NewAmount |-> OrZero(new_data_.amount),
     Change |-> OrZero(new_data_.amount) - OrZero(old_data.amount),
     OldLastModified |-> old_data.last_modified,
     NewLastModified |-> new_data_.last_modified]

\* AmountChanged comparing the cells as read, without `or 0`.
AmountChanged_RawCells(old_data, new_data_) ==
    old_data.amount # new_data_.amount

\* The test that guards the append in both loops.
AmountChanged(old_data, new_data_) ==
    OrZero(old_data.amount) # OrZero(new_data_.amount)

\* The project loop, visiting the keys in `order`.
ProjectLoop(old_projects, new_projects, order) ==
    LET F[i \in 0..Len(order)] ==
            IF i = 0 THEN <<>>
            ELSE LET project_id == order[i]
                     old_data == DictGet(old_projects, project_id, DefaultData)
                     new_data_ == DictGet(new_projects, project_id, DefaultData)
                 IN  IF AmountChanged(old_data, new_data_)
                     THEN Append(F[i - 1], ProjectChange(project_id, old_data, new_data_))
                     ELSE F[i - 1]
    IN  F[Len(order)]

\* IsMissing without the test that the key is absent from new_phases.
IsMissing_NoCurrentTest(phase_key, old_phases, new_phases) ==
    phase_key \in DOMAIN old_phases

\* IsMissing reporting only the phases that had an amount.
IsMissing_OnlyWithAmount(phase_key, old_phases, new_phases) ==
    /\ phase_key \in DOMAIN old_phases
    /\ phase_key \notin DOMAIN new_phases
    /\ OrZero(old_phases[phase_key].amount) # 0

\* The test that guards the missing_phases append.
IsMissing(phase_key, old_phases, new_phases) ==
    phase_key \in DOMAIN old_phases /\ phase_key \notin DOMAIN new_phases

\* StatusChanged reached only when the amount did not change.
StatusChanged_OnlyIfAmountKept(phase_key, old_phases, new_phases) ==
    /\ phase_key \in DOMAIN old_phases
    /\ phase_key \in DOMAIN new_phases
    /\ old_phases[phase_key].status # new_phases[phase_key].status
    /\ OrZero(old_phases[phase_key].amount) = OrZero(new_phases[phase_key].amount)

\* The test that guards the phase_status_changes append.
StatusChanged(phase_key, old_phases, new_phases) ==
    /\ phase_key \in DOMAIN old_phases
    /\ phase_key \in DOMAIN new_phases
    /\ old_phases[phase_key].status # new_phases[phase_key].status

MissingPhase(phase_key, old_data) ==
    [ProjectID |-> phase_key[1], PhaseID |-> phase_key[2],
     Description |-> old_data.description, Status |-> old_data.status,
     Amount |-> old_data.amount]

PhaseStatusChange(phase_key, old_data, new_data_) ==
    [ProjectID |-> phase_key[1], PhaseID |-> phase_key[2],
     Description |-> new_data_.description,
     OldStatus |-> old_data.status, NewStatus |-> new_data_.status]

\* The phase record described from the previous side.
PhaseChange_OldDescription(phase_key, old_data, new_data_) ==
    [ProjectID |-> phase_key[1], PhaseID |-> phase_key[2],
     Description |-> old_data.description,
     Status |-> old_data.status,
     OldAmount |-> OrZero(old_data.amount),
     NewAmount |-> OrZero(new_data_.amount),
     Change |-> OrZero(new_data_.amount) - OrZero(old_data.amount),
     OldLastModified |-> old_data.last_modified,
     NewLastModified |-> new_data_.last_modified]

PhaseChange(phase_key, old_data, new_data_) ==
    [ProjectID |-> phase_key[1], PhaseID |-> phase_key[2],
     Description |-> new_data_.description,
     Status |-> new_data_.status,
     OldAmount |-> OrZero(old_data.amount),
     NewAmount |-> OrZero(new_data_.amount),
     Change |-> OrZero(new_data_.amount) - OrZero(old_data.amount),
     OldLastModified |-> old_data.last_modified,
     NewLastModified |-> new_data_.last_modified]

\* The phase loop, visiting the keys in `order`: the three lists it fills.
PhaseLoop(old_phases, new_phases, order) ==
    LET F[i \in 0..Len(order)] ==
            IF i = 0
            THEN [phases |-> <<>>, missing_phases |-> <<>>,
                  phase_status_changes |-> <<>>]
            ELSE LET phase_key == order[i]
                     old_data == DictGet(old_phases, phase_key, DefaultData)
                     new_data_ == DictGet(new_phases, phase_key, DefaultData)
                     acc == F[i - 1]
                 IN  [missing_phases |->
                          IF IsMissing(phase_key, old_phases, new_phases)
                          THEN Append(acc.missing_phases,
                                      MissingPhase(phase_key, old_data))
                          ELSE acc.missing_phases,
                      phase_status_changes |->
                          IF StatusChanged(phase_key, old_phases, new_phases)
                          THEN Append(acc.phase_status_changes,
                                      PhaseStatusChange(phase_key, old_data, new_data_))
                          ELSE acc.phase_status_changes,
                      phases |->
                          IF AmountChanged(old_data, new_data_)
                          THEN Append(acc.phases,
                                      PhaseChange(phase_key, old_data, new_data_))
                          ELSE acc.phases]
    IN  F[Len(order)]

\* The dictionary returned when there is no previous file, and the one the
\* comparison starts from.
EmptyChanges ==
    [projects |-> <<>>, phases |-> <<>>,
     validation |-> [missing_phases |-> <<>>, phase_status_changes |-> <<>>]]

\* The dictionary the comparison of two loaded workbooks returns, the two key
\* sets being iterated in project_order and phase_order.
CompareWorkbooks(old_wb, new_wb, project_order, phase_order) ==
    LET old_projects == ProjectsDict(old_wb.Projects)
        new_projects == ProjectsDict(new_wb.Projects)
        old_phases == PhasesDict(old_wb.Phases)
        new_phases == PhasesDict(new_wb.Phases)
        ph == PhaseLoop(old_phases, new_phases, phase_order)
    IN  [projects |-> ProjectLoop(old_projects, new_projects, project_order),
         phases |-> ph.phases,
         validation |-> [missing_phases |-> ph.missing_phases,
                         phase_status_changes |-> ph.phase_status_changes]]

\* Step 5 of main: compare_contract_amounts().  Without a previous file it
\* returns the empty dictionary; a workbook that cannot be loaded raises, and
\* main exits with status 1.
compare_contract_amounts ==
    /\ pc = "compare"
    /\ IF ~previous_data.exists
       THEN /\ changes' = EmptyChanges
            /\ pc' = "summary"
       ELSE IF ~new_data.exists
       THEN /\ changes' = changes
            /\ pc' = "exit1"
       ELSE /\ \E project_order \in Orders(DOMAIN ProjectsDict(previous_data.Projects)
                                             \cup DOMAIN ProjectsDict(new_data.Projects)),
                  phase_order \in Orders(DOMAIN PhasesDict(previous_data.Phases)
                                           \cup DOMAIN PhasesDict(new_data.Phases)) :
                   changes' = CompareWorkbooks(previous_data, new_data,
                                               project_order, phase_order)
            /\ pc' = "summary"
    /\ UNCHANGED <<previous_data, new_data, console, report, gui, fetchVars, cycleVars>>

\* What compare_contract_amounts prints and logs for the dictionary ch it
\* returns: each message with the project and the phase it names (0 for
\* none).
CompareMessages(old_wb, ch) ==
    IF ~old_wb.exists
    THEN {[what |-> "No previous data to compare", project |-> 0, phase |-> 0]}
    ELSE {[what |-> "Comparing contract amounts", project |-> 0, phase |-> 0],
          [what |-> "Comparison Summary", project |-> 0, phase |-> 0]}
         \cup {[what |-> "Project Change Detected", project |-> ch.projects[i].ID,
                phase |-> 0] : i \in DOMAIN ch.projects}
         \cup {[what |-> "Missing Phase",
                project |-> ch.validation.missing_phases[i].ProjectID,
                phase |-> ch.validation.missing_phases[i].PhaseID] :
                  i \in DOMAIN ch.validation.missing_phases}
         \cup {[what |-> "Phase Change", project |-> ch.phases[i].ProjectID,
                phase |-> ch.phases[i].PhaseID] : i \in DOMAIN ch.phases}

\* The filtered phase changes main counts for its console summary.
ConsoleFiltered(ch) ==
    SelectSeq(ch.phases,
              LAMBDA ph : ph.ProjectID \in {ch.projects[i].ID : i \in DOMAIN ch.projects})

\* main's summary after the comparison.
main_summary ==
    /\ pc = "summary"
    /\ console' = [project_changes |-> Len(changes.projects),
                   phase_changes |-> Len(changes.phases),
                   filtered_phase_changes |-> Len(ConsoleFiltered(changes))]
    /\ pc' = "report"
    /\ UNCHANGED <<previous_data, new_data, changes, report, gui, fetchVars, cycleVars>>

\* -------------------------------------------------- save_comparison_report
\* ProjectChangePercent without the factor 100.
ProjectChangePercent_NoFactor(diff, old_amount) ==
    IF old_amount # 0 THEN TrueDiv(diff, old_amount) ELSE <<100, 1>>

\* change_percent of the "Project Changes" sheet.
ProjectChangePercent(diff, old_amount) ==
    IF old_amount # 0 THEN RatTimes(TrueDiv(diff, old_amount), 100) ELSE <<100, 1>>

\* flag of the "Project Changes" sheet, before the significance test.
ProjectBaseFlag(old_amount, new_amount, diff) ==
    IF old_amount = 0
    THEN IF new_amount > 0 THEN <<"New">> ELSE <<>>
    ELSE IF diff > 0 THEN <<"Increase">>
         ELSE IF diff < 0 THEN <<"Decrease">>
         ELSE <<>>

\* ProjectSignificant with a strict comparison.
ProjectSignificant_Strict(old_amount, diff) ==
    /\ old_amount # 0
    /\ LET r == RatAbs(RatTimes(TrueDiv(diff, old_amount), 100))
       IN  r[1] > 10 * r[2]

\* The significance test of the "Project Changes" sheet.
ProjectSignificant(old_amount, diff) ==
    old_amount # 0 /\ RatGeq(RatAbs(RatTimes(TrueDiv(diff, old_amount), 100)), 10)

\* flag of the "Project Changes" sheet.
ProjectFlag(old_amount, new_amount, diff) ==
    IF ProjectSignificant(old_amount, diff)
    THEN Strip(ProjectBaseFlag(old_amount, new_amount, diff) \o <<" ", "(Significant)">>)
    ELSE ProjectBaseFlag(old_amount, new_amount, diff)

\* One row of the "Project Changes" sheet.
ProjectReportRow(change) ==
    LET old_amount == change.OldAmount
        new_amount == change.NewAmount
        diff == change.Change
    IN  [ID |-> change.ID, OldAmount |-> change.OldAmount,
         NewAmount |-> change.NewAmount, Change |-> diff,
         Flag |-> ProjectFlag(old_amount, new_amount, diff),
         change_percent |-> ProjectChangePercent(diff, old_amount),
         ChangePct |-> Format2f(ProjectChangePercent(diff, old_amount))]

\* change_percent of the "Phase Changes" sheet.
PhaseChangePercent(diff, old_amount) ==
    IF old_amount # 0 THEN RatTimes(TrueDiv(diff, old_amount), 100) ELSE <<100, 1>>

\* PhaseBaseFlag giving "New" to every nonzero new amount.
PhaseBaseFlag_NewIfNonzero(old_amount, new_amount, diff) ==
    IF old_amount = 0
    THEN IF new_amount # 0 THEN <<"New">> ELSE <<>>
    ELSE IF diff > 0 THEN <<"Increase">>
         ELSE IF diff < 0 THEN <<"Decrease">>
         ELSE <<>>

\* flag of the "Phase Changes" sheet, before the significance test.
PhaseBaseFlag(old_amount, new_amount, diff) ==
    IF old_amount = 0
    THEN IF new_amount > 0 THEN <<"New">> ELSE <<>>
    ELSE IF diff > 0 THEN <<"Increase">>
         ELSE IF diff < 0 THEN <<"Decrease">>
         ELSE <<>>

\* The significance test of the "Phase Changes" sheet.
PhaseSignificant(old_amount, diff) ==
    old_amount # 0 /\ RatGeq(RatAbs(RatTimes(TrueDiv(diff, old_amount), 100)), 10)

\* flag of the "Phase Changes" sheet.
PhaseFlag(old_amount, new_amount, diff) ==
    IF PhaseSignificant(old_amount, diff)
    THEN Strip(PhaseBaseFlag(old_amount, new_amount, diff) \o <<" ", "(Significant)">>)
    ELSE PhaseBaseFlag(old_amount, new_amount, diff)

\* One row of the "Phase Changes" sheet.
PhaseReportRow(change) ==
    LET old_amount == change.OldAmount
        new_amount == change.NewAmount
        diff == change.Change
    IN  [ProjectID |-> change.ProjectID, PhaseID |-> change.PhaseID,
         OldAmount |-> change.OldAmount, NewAmount |-> change.NewAmount,
         Change |-> diff,
         Flag |-> PhaseFlag(old_amount, new_amount, diff),
         change_percent |-> PhaseChangePercent(diff, old_amount),
         ChangePct |-> Format2f(PhaseChangePercent(diff, old_amount))]

\* changed_project_ids and the test of the "Filtered Phase Changes" sheet.
InChangedProjects(change, ch) ==
    change.ProjectID \in {ch.projects[i].ID : i \in DOMAIN ch.projects}

\* change_percent of the "Filtered Phase Changes" sheet.
FilteredChangePercent(diff, old_amount) ==
    IF old_amount # 0 THEN RatTimes(TrueDiv(diff, old_amount), 100) ELSE <<100, 1>>

\* FilteredBaseFlag with the two directions exchanged.
FilteredBaseFlag_Swapped(old_amount, new_amount, diff) ==
    IF old_amount = 0
    THEN IF new_amount > 0 THEN <<"New">> ELSE <<>>
    ELSE IF diff > 0 THEN <<"Decrease">>
         ELSE IF diff < 0 THEN <<"Increase">>
         ELSE <<>>

\* flag of the "Filtered Phase Changes" sheet, before the significance test.
FilteredBaseFlag(old_amount, new_amount, diff) ==
    IF old_amount = 0
    THEN IF new_amount > 0 THEN <<"New">> ELSE <<>>
    ELSE IF diff > 0 THEN <<"Increase">>
         ELSE IF diff < 0 THEN <<"Decrease">>
         ELSE <<>>

\* The significance test of the "Filtered Phase Changes" sheet.
FilteredSignificant(old_amount, diff) ==
    old_amount # 0 /\ RatGeq(RatAbs(RatTimes(TrueDiv(diff, old_amount), 100)), 10)

\* flag of the "Filtered Phase Changes" sheet.
FilteredFlag(old_amount, new_amount, diff) ==
    IF FilteredSignificant(old_amount, diff)
    THEN Strip(FilteredBaseFlag(old_amount, new_amount, diff) \o <<" ", "(Significant)">>)
    ELSE FilteredBaseFlag(old_amount, new_amount, diff)

\* One row of the "Filtered Phase Changes" sheet.
FilteredReportRow(change) ==
    LET old_amount == change.OldAmount
        new_amount == change.NewAmount
        diff == change.Change
    IN  [ProjectID |-> change.ProjectID, PhaseID |-> change.PhaseID,
         OldAmount |-> change.OldAmount, NewAmount |-> change.NewAmount,
         Change |-> diff,
         Flag |-> FilteredFlag(old_amount, new_amount, diff),
         change_percent |-> FilteredChangePercent(diff, old_amount),
         ChangePct |-> Format2f(FilteredChangePercent(diff, old_amount))]

\* The three sheets save_comparison_report writes for the dictionary ch.
ReportSheets(ch) ==
    LET filtered == SelectSeq(ch.phases, LAMBDA c : InChangedProjects(c, ch))
    IN  [ProjectChanges |->
             [i \in DOMAIN ch.projects |-> ProjectReportRow(ch.projects[i])],
         PhaseChanges |->
             [i \in DOMAIN ch.phases |-> PhaseReportRow(ch.phases[i])],
         FilteredPhaseChanges |->
             [i \in DOMAIN filtered |-> FilteredReportRow(filtered[i])]]

NoReport == [ProjectChanges |-> <<>>, PhaseChanges |-> <<>>, FilteredPhaseChanges |-> <<>>]

\* main: save_comparison_report(changes, report_file).
save_comparison_report ==
    /\ pc = "report"
    /\ report' = ReportSheets(changes)
    /\ pc' = "display"
    /\ UNCHANGED <<previous_data, new_data, changes, console, gui, fetchVars, cycleVars>>

\* --------------------------------------------------------- display_changes
\* DisplayProjectPercent showing 0 for a change from zero.
DisplayProjectPercent_ZeroSentinel(change) ==
    LET old_amount == change.OldAmount
    IN  IF old_amount # 0
        THEN RatTimes(TrueDiv(change.Change, old_amount), 100)
        ELSE <<0, 1>>

\* cp of the "Project Changes" tab.
DisplayProjectPercent(change) ==
    LET old_amount == change.OldAmount
    IN  IF old_amount # 0
        THEN RatTimes(TrueDiv(change.Change, old_amount), 100)
        ELSE <<100, 1>>

\* cp of the "Phase Changes" tab.
DisplayPhasePercent(change) ==
    LET old_amount == change.OldAmount
    IN  IF old_amount # 0
        THEN RatTimes(TrueDiv(change.Change, old_amount), 100)
        ELSE <<100, 1>>

\* The window counting every phase change as filtered.
DisplayFiltered_Unfiltered(ch) == ch.phases

\* The filtered phase changes the summary label counts.
DisplayFiltered(ch) ==
    SelectSeq(ch.phases,
              LAMBDA ph : ph.ProjectID \in {ch.projects[i].ID : i \in DOMAIN ch.projects})

\* The summary label and the two tabs of the window.
DisplayWindow(ch) ==
    [filtered_phase_changes |-> Len(DisplayFiltered(ch)),
     projects |->
         [i \in DOMAIN ch.projects |->
             [ID |-> ch.projects[i].ID,
              cp |-> DisplayProjectPercent(ch.projects[i]),
              ChangePct |-> Format2f(DisplayProjectPercent(ch.projects[i]))]],
     phases |->
         [i \in DOMAIN ch.phases |->
             [ProjectID |-> ch.phases[i].ProjectID, PhaseID |-> ch.phases[i].PhaseID,
              cp |-> DisplayPhasePercent(ch.phases[i]),
              ChangePct |-> Format2f(DisplayPhasePercent(ch.phases[i]))]]]

NoWindow == [filtered_phase_changes |-> 0, projects |-> <<>>, phases |-> <<>>]

\* main: display_changes(changes).
display_changes ==
    /\ pc = "display"
    /\ gui' = DisplayWindow(changes)
    /\ pc' = "done"
    /\ UNCHANGED <<previous_data, new_data, changes, console, report, fetchVars, cycleVars>>

\* The fetch state before process_projects_in_batches is called.
FetchIdle ==
    /\ batch_start = 0
    /\ idx = 1
    /\ attempt = 1
    /\ processed_data = <<>>
    /\ calls = [k \in 1..Len(projects) |-> 0]
    /\ errors = [k \in 1..Len(projects) |-> <<>>]
    /\ sleeps = <<>>
    /\ failed = <<>>
    /\ in_flight = 0
    /\ batch_pauses = 0

\* The first run of main, nothing rotated or committed yet.
CycleIdle ==
    /\ cycle = 1
    /\ run_log = <<>>
    /\ start_files = [previous |-> previous_data, new |-> new_data]
    /\ last_saved = new_data

\* ----------------------------------------------- the comparison, its inputs
\* Sheets of at most one row each; a row with a falsy ID is represented once.
ProjectSheets ==
    {<<>>} \cup {<<ProjectRow(id, a)>> : id \in ProjectIDs, a \in AmountCells}
           \cup {<<ProjectRow(0, <<100>>)>>}

PhaseSheets ==
    {<<>>} \cup {<<PhaseRow(pid, phid, a, st)>> :
                    pid \in ProjectIDs, phid \in PhaseIDs, a \in AmountCells,
                    st \in Statuses}
           \cup {<<PhaseRow(1, 0, <<100>>, "Active")>>}

Workbooks == {Workbook(p, ph) : p \in ProjectSheets, ph \in PhaseSheets}

\* Workbooks that hold project 1 and its phase 1, with amounts from
\* ClassifyAmounts: the inputs of the classification.
ClassifyWorkbooks ==
    {Workbook(<<ProjectRow(1, <<a>>)>>, <<PhaseRow(1, 1, <<b>>, "Active")>>) :
        a \in ClassifyAmounts, b \in ClassifyAmounts}

\* Workbooks whose two sheets each hold the same key twice.
DupWorkbooks ==
    {Workbook(<<ProjectRow(1, a), ProjectRow(1, b)>>,
              <<PhaseRow(1, 1, c, "Active"), PhaseRow(1, 1, d, st)>>) :
        a \in {<<0>>, <<100>>}, b \in {<<0>>, <<100>>},
        c \in {<<0>>, <<100>>}, d \in {<<0>>, <<100>>}, st \in Statuses}

NoConsole == [project_changes |-> 0, phase_changes |-> 0, filtered_phase_changes |-> 0]

\* main has saved new_data and is about to compare it with previous_data,
\* which is missing on a first run.
InitDiff ==
    /\ \/ /\ previous_data \in {NoFile} \cup Workbooks
          /\ new_data \in Workbooks
       \/ /\ previous_data \in ClassifyWorkbooks
          /\ new_data \in ClassifyWorkbooks
       \/ /\ previous_data \in DupWorkbooks
          /\ new_data \in DupWorkbooks
    /\ changes = EmptyChanges
    /\ console = NoConsole
    /\ report = NoReport
    /\ gui = NoWindow
    /\ projects = <<>>
    /\ batch_size = BATCH_SIZE
    /\ FetchIdle
    /\ CycleIdle
    /\ pc = "compare"

NextDiff ==
    \/ compare_contract_amounts
    \/ main_summary
    \/ save_comparison_report
    \/ display_changes

SpecDiff == InitDiff /\ [][NextDiff]_vars

\* ------------------------------------- process_projects_in_batches, fetch
\* The project keys of a list of n projects, numbered in list order.
ProjectLists == {[k \in 1..n |-> k] : n \in 0..MaxProjects}

\* self.BATCH_SIZE is read at every use; the values below BATCH_SIZE make a
\* list of MaxProjects projects span several batches.
BatchSizes == {1, 2, BATCH_SIZE}

\* What one request can do: answer, or raise a transient error (timeout,
\* connection) or a non-transient one (the session is refused).
Responses == {"ok", "timeout", "auth"}

Min(a, b) == IF a < b THEN a ELSE b

\* batch = projects[i:i + BATCH_SIZE]
Batch == SubSeq(projects, batch_start + 1, Min(batch_start + batch_size, Len(projects)))

\* project_key of the project being fetched.
project_key == Batch[idx]

\* The project dictionary fetch_project_details returns for a key.
ProjectDetails(key) == [ID |-> key, ProjectKey |-> key]

\* A last batch of a single project is not processed.
NextProject_DropsShortLastBatch ==
    IF idx < Len(Batch)
    THEN /\ idx' = idx + 1
         /\ attempt' = 1
         /\ pc' = "request"
    ELSE /\ UNCHANGED <<idx, attempt>>
         /\ pc' = IF batch_start + batch_size < Len(projects) - 1
                  THEN "batch_sleep" ELSE "save"

\* What follows the return of fetch_project_details for the project at idx:
\* the next project of the batch, the pause before the next batch, or the
\* return of processed_data to main.
NextProject ==
    IF idx < Len(Batch)
    THEN /\ idx' = idx + 1
         /\ attempt' = 1
         /\ pc' = "request"
    ELSE /\ UNCHANGED <<idx, attempt>>
         /\ pc' = IF batch_start + batch_size < Len(projects)
                  THEN "batch_sleep" ELSE "save"

\* Step 3 of main: process_projects_in_batches(projects), up to its first
\* call of fetch_project_details; an empty list is returned at once.
process_projects_in_batches ==
    /\ pc = "process"
    /\ processed_data' = <<>>
    /\ batch_start' = 0
    /\ idx' = 1
    /\ attempt' = 1
    /\ pc' = IF projects = <<>> THEN "save" ELSE "request"
    /\ UNCHANGED <<diffVars, cycleVars, projects, batch_size, calls, errors, sleeps, failed,
                   in_flight, batch_pauses>>

\* fetch_project_details sends its request.
fetch_request ==
    /\ pc = "request"
    /\ calls' = [calls EXCEPT ![project_key] = @ + 1]
    /\ in_flight' = in_flight + 1
    /\ pc' = "await"
    /\ UNCHANGED <<diffVars, cycleVars, projects, batch_size, batch_start, idx, attempt,
                   processed_data, errors, sleeps, failed, batch_pauses>>

\* A project fetched at a retry is appended once more.
fetch_success_AppendedTwiceAfterRetry ==
    /\ pc = "await"
    /\ in_flight' = in_flight - 1
    /\ processed_data' =
          IF attempt > 1
          THEN Append(Append(processed_data, ProjectDetails(project_key)),
                      ProjectDetails(project_key))
          ELSE Append(processed_data, ProjectDetails(project_key))
    /\ NextProject
    /\ UNCHANGED <<diffVars, cycleVars, projects, batch_size, batch_start, calls, errors,
                   sleeps, failed, batch_pauses>>

\* The request answers: the project is returned and appended.
fetch_success ==
    /\ pc = "await"
    /\ in_flight' = in_flight - 1
    /\ processed_data' = Append(processed_data, ProjectDetails(project_key))
    /\ NextProject
    /\ UNCHANGED <<diffVars, cycleVars, projects, batch_size, batch_start, calls, errors,
                   sleeps, failed, batch_pauses>>

\* One more attempt than retry_count allows.
RetryAllowed_OneMore(a) == a <= retry_count

\* The test of the except clause: another attempt is made.
RetryAllowed(a) == a < retry_count

\* A project given up ends the loop: processed_data is returned at once.
fetch_error_StopAtFailure ==
    /\ pc = "await"
    /\ \E e \in Responses \ {"ok"} :
          errors' = [errors EXCEPT ![project_key] = Append(@, e)]
    /\ in_flight' = in_flight - 1
    /\ IF RetryAllowed(attempt)
       THEN /\ pc' = "backoff"
            /\ UNCHANGED <<idx, attempt, failed>>
       ELSE /\ failed' = Append(failed, project_key)
            /\ pc' = "save"
            /\ UNCHANGED <<idx, attempt>>
    /\ UNCHANGED <<diffVars, cycleVars, projects, batch_size, batch_start, processed_data,
                   calls, sleeps, batch_pauses>>

\* The retry is started while the failed request still counts as pending.
fetch_error_RetryWhilePending ==
    /\ pc = "await"
    /\ \E e \in Responses \ {"ok"} :
          errors' = [errors EXCEPT ![project_key] = Append(@, e)]
    /\ IF RetryAllowed(attempt)
       THEN /\ pc' = "backoff"
            /\ UNCHANGED <<idx, attempt, failed, in_flight>>
       ELSE /\ failed' = Append(failed, project_key)
            /\ in_flight' = in_flight - 1
            /\ NextProject
    /\ UNCHANGED <<diffVars, cycleVars, projects, batch_size, batch_start, processed_data,
                   calls, sleeps, batch_pauses>>

\* The request raises, whatever the exception: a retry after the backoff
\* when attempts remain, else None is returned and the project is skipped.
fetch_error ==
    /\ pc = "await"
    /\ \E e \in Responses \ {"ok"} :
          errors' = [errors EXCEPT ![project_key] = Append(@, e)]
    /\ in_flight' = in_flight - 1
    /\ IF RetryAllowed(attempt)
       THEN /\ pc' = "backoff"
            /\ UNCHANGED <<idx, attempt, failed>>
       ELSE /\ failed' = Append(failed, project_key)
            /\ NextProject
    /\ UNCHANGED <<diffVars, cycleVars, projects, batch_size, batch_start, processed_data,
                   calls, sleeps, batch_pauses>>

\* The same delay before every retry.
BackoffDelay_Constant(a) == retry_delay

\* time.sleep(self.retry_delay * attempt)
BackoffDelay(a) == retry_delay * a

\* The backoff, then the recursive call with attempt + 1.
fetch_backoff ==
    /\ pc = "backoff"
    /\ sleeps' = Append(sleeps, [key |-> project_key, attempt |-> attempt,
                                 delay |-> BackoffDelay(attempt)])
    /\ attempt' = attempt + 1
    /\ pc' = "request"
    /\ UNCHANGED <<diffVars, cycleVars, projects, batch_size, batch_start, idx,
                   processed_data, calls, errors, failed, in_flight, batch_pauses>>

\* The pause after a batch that is not the last, and the next batch.
batch_sleep ==
    /\ pc = "batch_sleep"
    /\ batch_pauses' = batch_pauses + 1
    /\ batch_start' = batch_start + batch_size
    /\ idx' = 1
    /\ attempt' = 1
    /\ pc' = "request"
    /\ UNCHANGED <<diffVars, cycleVars, projects, batch_size, processed_data, calls, errors,
                   sleeps, failed, in_flight>>

\* What process_projects_in_batches has printed when it returns: the number
\* of projects it was given and the number it processed; nothing for an
\* empty list.
ProcessConsole ==
    IF projects = <<>> THEN {}
    ELSE {[what |-> "Processing projects", count |-> Len(projects)],
          [what |-> "Successfully processed projects",
           count |-> Len(processed_data)]}

\* What process_projects_in_batches returns to main: the list alone.
ProcessReturn == [processed_data |-> processed_data]

\* The debug log lines of the projects given up, one per project.
FailureLog == [n \in DOMAIN failed |-> <<"Failed to fetch details for project", failed[n]>>]

\* main has the project list and is about to process it.
InitFetch ==
    /\ projects \in ProjectLists
    /\ batch_size \in BatchSizes
    /\ FetchIdle
    /\ previous_data = NoFile
    /\ new_data = NoFile
    /\ CycleIdle
    /\ changes = EmptyChanges
    /\ console = NoConsole
    /\ report = NoReport
    /\ gui = NoWindow
    /\ pc = "process"

NextFetch ==
    \/ process_projects_in_batches
    \/ fetch_request
    \/ fetch_success
    \/ fetch_error
    \/ fetch_backoff
    \/ batch_sleep

SpecFetch == InitFetch /\ [][NextFetch]_vars

\* The fetch as it runs: main is one sequential process that keeps taking
\* its next step, and every request sent either answers or raises.
SpecFetchLive == SpecFetch /\ WF_vars(NextFetch)

\* ------------------------------------------------------ main, run after run
\* The project lists ListProjects can answer in a run.
ServerLists == {[k \in 1..n |-> k] : n \in 0..Cardinality(ProjectIDs)}

\* The rotation as a copy: new_data is left in place.
backup_current_data_Copy ==
    /\ pc = "backup"
    /\ IF new_data.exists
       THEN \/ /\ previous_data.exists
               /\ UNCHANGED <<previous_data, new_data, run_log>>
               /\ pc' = "exit1"
            \/ /\ previous_data' = NoFile
               /\ UNCHANGED <<new_data, run_log>>
               /\ pc' = "exit1"
            \/ /\ previous_data' = new_data
               /\ UNCHANGED new_data
               /\ run_log' = Append(run_log, "backup")
               /\ pc' = "create_session"
       ELSE /\ UNCHANGED <<previous_data, new_data>>
            /\ run_log' = Append(run_log, "backup")
            /\ pc' = "create_session"
    /\ UNCHANGED <<changes, console, report, gui, fetchVars, cycle, start_files,
                   last_saved>>

\* The rotation without its test for a new_data file: with none, the
\* previous_data file is removed all the same.
backup_current_data_Unconditional ==
    /\ pc = "backup"
    /\ \/ /\ previous_data.exists
          /\ UNCHANGED <<previous_data, new_data, run_log>>
          /\ pc' = "exit1"
       \/ /\ previous_data' = NoFile
          /\ UNCHANGED <<new_data, run_log>>
          /\ pc' = "exit1"
       \/ /\ previous_data' = new_data
          /\ new_data' = NoFile
          /\ run_log' = Append(run_log, "backup")
          /\ pc' = "create_session"
    /\ UNCHANGED <<changes, console, report, gui, fetchVars, cycle, start_files,
                   last_saved>>

\* Step 1 of main. With a new_data file: previous_data is removed if it
\* exists, then new_data is renamed to previous_data; os.remove or os.rename
\* can raise, which ends the run. With no new_data file nothing is touched.
backup_current_data ==
    /\ pc = "backup"
    /\ IF new_data.exists
       THEN \/ /\ previous_data.exists
               /\ UNCHANGED <<previous_data, new_data, run_log>>
               /\ pc' = "exit1"
            \/ /\ previous_data' = NoFile
               /\ UNCHANGED <<new_data, run_log>>
               /\ pc' = "exit1"
            \/ /\ previous_data' = new_data
               /\ new_data' = NoFile
               /\ run_log' = Append(run_log, "backup")
               /\ pc' = "create_session"
       ELSE /\ UNCHANGED <<previous_data, new_data>>
            /\ run_log' = Append(run_log, "backup")
            /\ pc' = "create_session"
    /\ UNCHANGED <<changes, console, report, gui, fetchVars, cycle, start_files,
                   last_saved>>

\* Step 2 of main, first half: the session is created, or the request raises.
create_session ==
    /\ pc = "create_session"
    /\ pc' \in {"fetch_projects", "exit1"}
    /\ UNCHANGED <<diffVars, fetchVars, cycleVars>>

\* Step 2 of main, second half: the list of active projects, or the request
\* raises.
fetch_projects ==
    /\ pc = "fetch_projects"
    /\ \/ /\ projects' \in ServerLists
          /\ calls' = [k \in 1..Len(projects') |-> 0]
          /\ errors' = [k \in 1..Len(projects') |-> <<>>]
          /\ pc' = "process"
       \/ /\ UNCHANGED <<projects, calls, errors>>
          /\ pc' = "exit1"
    /\ UNCHANGED <<diffVars, cycleVars, batch_size, batch_start, idx, attempt,
                   processed_data, sleeps, failed, in_flight, batch_pauses>>

\* The workbook save_to_excel builds: one Projects row per record, the
\* amount read with its default 0; the records hold no phases.
SavedWorkbook(data) ==
    Workbook([n \in DOMAIN data |-> ProjectRow(data[n].ID, <<0>>)], <<>>)

\* Step 4 of main: the workbook is saved as new_data, or wb.save raises.
save_to_excel ==
    /\ pc = "save"
    /\ \/ /\ new_data' = SavedWorkbook(processed_data)
          /\ last_saved' = SavedWorkbook(processed_data)
          /\ run_log' = Append(run_log, "commit")
          /\ pc' = "compare"
       \/ /\ UNCHANGED <<new_data, run_log, last_saved>>
          /\ pc' = "exit1"
    /\ UNCHANGED <<previous_data, changes, console, report, gui, fetchVars,
                   cycle, start_files>>

\* An exception raised after the save, by the comparison, the report or the
\* window: main prints its critical error and exits with status 1.
main_critical_error ==
    /\ pc \in {"compare", "summary", "report", "display"}
    /\ pc' = "exit1"
    /\ UNCHANGED <<diffVars, fetchVars, cycleVars>>

\* The runs of main a behaviour holds.
MaxCycles == 3

\* main has ended, normally or with exit status 1, and is started again: a
\* new ProjectFetcher, the two files as the last run left them.
next_run ==
    /\ pc \in {"done", "exit1"}
    /\ cycle < MaxCycles
    /\ cycle' = cycle + 1
    /\ run_log' = <<>>
    /\ start_files' = [previous |-> previous_data, new |-> new_data]
    /\ changes' = EmptyChanges
    /\ console' = NoConsole
    /\ report' = NoReport
    /\ gui' = NoWindow
    /\ projects' = <<>>
    /\ batch_start' = 0
    /\ idx' = 1
    /\ attempt' = 1
    /\ processed_data' = <<>>
    /\ calls' = <<>>
    /\ errors' = <<>>
    /\ sleeps' = <<>>
    /\ failed' = <<>>
    /\ in_flight' = 0
    /\ batch_pauses' = 0
    /\ pc' = "backup"
    /\ UNCHANGED <<previous_data, new_data, batch_size, last_saved>>

\* The first run on a machine that holds neither file.
InitCycle ==
    /\ previous_data = NoFile
    /\ new_data = NoFile
    /\ changes = EmptyChanges
    /\ console = NoConsole
    /\ report = NoReport
    /\ gui = NoWindow
    /\ projects = <<>>
    /\ batch_size \in BatchSizes
    /\ FetchIdle
    /\ CycleIdle
    /\ pc = "backup"

NextCycle ==
    \/ backup_current_data
    \/ create_session
    \/ fetch_projects
    \/ process_projects_in_batches
    \/ fetch_request
    \/ fetch_success
    \/ fetch_error
    \/ fetch_backoff
    \/ batch_sleep
    \/ save_to_excel
    \/ compare_contract_amounts
    \/ main_summary
    \/ save_comparison_report
    \/ display_changes
    \/ main_critical_error
    \/ next_run

SpecCycle == InitCycle /\ [][NextCycle]_vars

\* ================================================================== claims
\* Helpers of the claims: what a snapshot file holds, read apart from the
\* comparison loops.
ChangeProjectKey(c) == c.ID
ChangePhaseKey(c) == <<c.ProjectID, c.PhaseID>>

\* The keys of the entries of a list of project records, of phase records.
ProjectKeysOf(list) == [i \in DOMAIN list |-> ChangeProjectKey(list[i])]
PhaseKeysOf(list) == [i \in DOMAIN list |-> ChangePhaseKey(list[i])]

\* The number of entries with key k in a list whose keys are `keys`.
Count(keys, k) == Cardinality({i \in DOMAIN keys : keys[i] = k})

PrevProjects == ProjectsDict(previous_data.Projects)
CurProjects == ProjectsDict(new_data.Projects)
PrevPhases == PhasesDict(previous_data.Phases)
CurPhases == PhasesDict(new_data.Phases)

\* The amount of key k in dictionary d, 0 when k is absent or its cell empty.
AmountIn(d, k) == IF k \in DOMAIN d THEN OrZero(d[k].amount) ELSE 0

Compared == pc \in {"summary", "report", "display", "done"}

\* C1: comparing a snapshot with itself yields empty projects, phases,
\* missing_phases and phase_status_changes.
C1_SelfCompareEmpty ==
    (Compared /\ previous_data = new_data) =>
        /\ changes.projects = <<>>
        /\ changes.phases = <<>>
        /\ changes.validation.missing_phases = <<>>
        /\ changes.validation.phase_status_changes = <<>>

\* C1 witness: a snapshot holding a project and a phase with nonzero amounts
\* has been compared with itself.
C1_Witness ==
    /\ Compared
    /\ previous_data = new_data
    /\ \E k \in DOMAIN CurProjects : AmountIn(CurProjects, k) # 0
    /\ \E k \in DOMAIN CurPhases : AmountIn(CurPhases, k) # 0

\* The statement of C2 for one granularity: `list` holds, for every key of
\* the union, exactly one record when the amounts differ and none otherwise;
\* every record carries the resolved amounts, their difference as its delta,
\* and a nonzero delta.
ExactlyTheChanged(list, keys, old, new) ==
    /\ \A k \in DOMAIN old \cup DOMAIN new :
          Count(keys, k) = IF AmountIn(old, k) # AmountIn(new, k) THEN 1 ELSE 0
    /\ \A i \in DOMAIN list :
          /\ keys[i] \in DOMAIN old \cup DOMAIN new
          /\ list[i].OldAmount = AmountIn(old, keys[i])
          /\ list[i].NewAmount = AmountIn(new, keys[i])
          /\ list[i].Change = list[i].NewAmount - list[i].OldAmount
          /\ list[i].Change # 0

PrevEmpty == DOMAIN PrevProjects = {} /\ DOMAIN PrevPhases = {}

\* Every entity of the current snapshot with a nonzero amount has a row on
\* its report sheet whose flag is "New" when the amount is positive and
\* `negative` when it is negative.
NonzeroEntitiesFlagged(negative) ==
    /\ \A k \in DOMAIN CurProjects :
          AmountIn(CurProjects, k) # 0 =>
              \E i \in DOMAIN report.ProjectChanges :
                  /\ report.ProjectChanges[i].ID = k
                  /\ report.ProjectChanges[i].Flag =
                        IF AmountIn(CurProjects, k) > 0 THEN <<"New">> ELSE negative
    /\ \A k \in DOMAIN CurPhases :
          AmountIn(CurPhases, k) # 0 =>
              \E i \in DOMAIN report.PhaseChanges :
                  /\ ChangePhaseKey(report.PhaseChanges[i]) = k
                  /\ report.PhaseChanges[i].Flag =
                        IF AmountIn(CurPhases, k) > 0 THEN <<"New">> ELSE negative

ReportRows ==
    {report.ProjectChanges[i] : i \in DOMAIN report.ProjectChanges}
    \cup {report.PhaseChanges[i] : i \in DOMAIN report.PhaseChanges}
    \cup {report.FilteredPhaseChanges[i] : i \in DOMAIN report.FilteredPhaseChanges}

\* The base classification the specification gives.
ClaimedBase(oldAmount, newAmount, delta) ==
    CASE oldAmount = 0 /\ newAmount > 0 -> <<"New">>
      [] oldAmount = 0 /\ ~(newAmount > 0) -> <<>>
      [] oldAmount # 0 /\ delta > 0 -> <<"Increase">>
      [] oldAmount # 0 /\ delta < 0 -> <<"Decrease">>
      [] oldAmount # 0 /\ delta = 0 -> <<>>

\* The flag with a trailing "(Significant)" and the blank before it removed.
BaseOfFlag(flag) ==
    IF flag # <<>> /\ flag[Len(flag)] = "(Significant)"
    THEN Strip(SubSeq(flag, 1, Len(flag) - 1))
    ELSE flag

HasBaseFlag(row) ==
    BaseOfFlag(row.Flag) = ClaimedBase(row.OldAmount, row.NewAmount, row.Change)

\* C4: on the project, phase and filtered phase sheets alike, the base
\* classification is "New"/empty from a zero old amount (by the sign of the
\* new amount) and "Increase"/"Decrease"/empty otherwise (by the sign of the
\* delta).
C4_BaseClassification ==
    /\ \A i \in DOMAIN report.ProjectChanges : HasBaseFlag(report.ProjectChanges[i])
    /\ \A i \in DOMAIN report.PhaseChanges : HasBaseFlag(report.PhaseChanges[i])
    /\ \A i \in DOMAIN report.FilteredPhaseChanges :
          HasBaseFlag(report.FilteredPhaseChanges[i])

\* C4 witness: a report whose project sheet holds a "New" row and whose
\* filtered phase sheet holds a decrease.
C4_Witness ==
    /\ pc = "done"
    /\ \E i \in DOMAIN report.ProjectChanges :
          BaseOfFlag(report.ProjectChanges[i].Flag) = <<"New">>
    /\ \E i \in DOMAIN report.FilteredPhaseChanges :
          BaseOfFlag(report.FilteredPhaseChanges[i].Flag) = <<"Decrease">>
    /\ \E i \in DOMAIN report.PhaseChanges :
          report.PhaseChanges[i].OldAmount # 0

\* The significance rule the specification gives, without division:
\* |delta / old| * 100 >= 10 is 100 * |delta| >= 10 * |old|.
ClaimedSignificant(oldAmount, delta) ==
    oldAmount # 0 /\ 100 * Abs(delta) >= 10 * Abs(oldAmount)

MarkedSignificant(flag) == \E i \in DOMAIN flag : flag[i] = "(Significant)"

\* C5: "(Significant)" is in a row's flag exactly when the old amount is
\* nonzero and the change is at least 10 percent of it; it then follows the
\* base classification after one blank, with no blank at either end.
C5_SignificantIffTenPercent ==
    \A row \in ReportRows :
        /\ MarkedSignificant(row.Flag) <=> ClaimedSignificant(row.OldAmount, row.Change)
        /\ MarkedSignificant(row.Flag) =>
              row.Flag = ClaimedBase(row.OldAmount, row.NewAmount, row.Change)
                           \o <<" ", "(Significant)">>
        /\ row.Flag # <<>> => row.Flag[1] # " " /\ row.Flag[Len(row.Flag)] # " "
        /\ row.OldAmount = 0 => ~MarkedSignificant(row.Flag)

\* C5 witness: a report with a row changed by exactly 10 percent and marked,
\* a row changed by less and not marked, both from a nonzero old amount.
C5_Witness ==
    /\ pc = "done"
    /\ \E row \in ReportRows :
          /\ row.OldAmount # 0
          /\ 100 * Abs(row.Change) = 10 * Abs(row.OldAmount)
          /\ MarkedSignificant(row.Flag)
    /\ \E row \in ReportRows :
          /\ row.OldAmount # 0
          /\ 100 * Abs(row.Change) < 10 * Abs(row.OldAmount)
          /\ ~MarkedSignificant(row.Flag)

\* The rows of the "Project Changes" sheet for a change from old to new carry
\* delta, the percent text pct (in hundredths: 5000 is "50.00%") and flag.
ProjectExample(old, new, delta, pct, flag) ==
    \A i \in DOMAIN report.ProjectChanges :
        (report.ProjectChanges[i].OldAmount = old
            /\ report.ProjectChanges[i].NewAmount = new) =>
            /\ report.ProjectChanges[i].Change = delta
            /\ report.ProjectChanges[i].ChangePct = pct
            /\ report.ProjectChanges[i].Flag = flag

\* C6 as claimed: 100 -> 150 is delta 50, 50.00 percent, "Increase";
\* 100 -> 80 is delta -20, -20.00 percent, "Decrease (Significant)";
\* 0 -> 50 is "New" with percent 100; 100 -> 95 is -5.00 percent, "Decrease".
C6_Original ==
    /\ ProjectExample(100, 150, 50, 5000, <<"Increase">>)
    /\ ProjectExample(100, 80, -20, -2000, <<"Decrease", " ", "(Significant)">>)
    /\ ProjectExample(0, 50, 50, 10000, <<"New">>)
    /\ ProjectExample(100, 95, -5, -500, <<"Decrease">>)

\* C6 amended: the same examples, except that 100 -> 150, a change of 50
\* percent, is classified "Increase (Significant)".
C6_ClassificationExamples ==
    /\ ProjectExample(100, 150, 50, 5000, <<"Increase", " ", "(Significant)">>)
    /\ ProjectExample(100, 80, -20, -2000, <<"Decrease", " ", "(Significant)">>)
    /\ ProjectExample(0, 50, 50, 10000, <<"New">>)
    /\ ProjectExample(100, 95, -5, -500, <<"Decrease">>)

\* C6 witness: the report of a project that went from 100 to 150 has been
\* written.
C6_Witness ==
    /\ pc = "done"
    /\ \E i \in DOMAIN report.ProjectChanges :
          /\ report.ProjectChanges[i].OldAmount = 100
          /\ report.ProjectChanges[i].NewAmount = 150

\* The rational r is (delta / oldAmount) * 100, or 100 from a zero old amount.
IsClaimedPercent(r, oldAmount, delta) ==
    IF oldAmount # 0
    THEN r[2] > 0 /\ r[1] * oldAmount = 100 * delta * r[2]
    ELSE r = <<100, 1>>

\* C7: the change percent of every report row is (delta / old) * 100, or the
\* sentinel 100 when the old amount is 0, whatever the sign of the new one;
\* the window shows the same value for the same change.
C7_ChangePercent ==
    /\ \A row \in ReportRows : IsClaimedPercent(row.change_percent, row.OldAmount, row.Change)
    /\ pc = "done" =>
          /\ \A i \in DOMAIN changes.projects :
                /\ gui.projects[i].cp = report.ProjectChanges[i].change_percent
                /\ gui.projects[i].ChangePct = report.ProjectChanges[i].ChangePct
          /\ \A i \in DOMAIN changes.phases :
                /\ gui.phases[i].cp = report.PhaseChanges[i].change_percent
                /\ gui.phases[i].ChangePct = report.PhaseChanges[i].ChangePct

\* C7 witness: report and window both show a project changed from a zero old
\* amount to a negative one and a phase changed from a nonzero old amount.
C7_Witness ==
    /\ pc = "done"
    /\ \E i \in DOMAIN report.ProjectChanges :
          /\ report.ProjectChanges[i].OldAmount = 0
          /\ report.ProjectChanges[i].NewAmount < 0
          /\ gui.projects[i].cp = <<100, 1>>
    /\ \E i \in DOMAIN report.PhaseChanges : report.PhaseChanges[i].OldAmount # 0

\* C8: a phase key of the previous snapshot that is absent from the current
\* one has exactly one missing_phases entry, whatever its amount and whether
\* or not its project changed; every other key has none.
C8_MissingChildren ==
    Compared =>
        /\ \A k \in DOMAIN PrevPhases \cup DOMAIN CurPhases :
              Count(PhaseKeysOf(changes.validation.missing_phases), k) =
                  IF k \in DOMAIN PrevPhases /\ k \notin DOMAIN CurPhases THEN 1 ELSE 0
        /\ \A i \in DOMAIN changes.validation.missing_phases :
              ChangePhaseKey(changes.validation.missing_phases[i]) \in DOMAIN PrevPhases

\* C8 witness: a phase with an empty or zero amount disappeared while its
\* project, present on both sides, did not change.
C8_Witness ==
    /\ Compared
    /\ \E i \in DOMAIN changes.validation.missing_phases :
          LET m == changes.validation.missing_phases[i]
          IN  /\ OrZero(m.Amount) = 0
              /\ m.ProjectID \in DOMAIN PrevProjects \cap DOMAIN CurProjects
              /\ \A j \in DOMAIN changes.projects : changes.projects[j].ID # m.ProjectID

\* C9: a phase key present in both snapshots has a phase_status_changes entry
\* exactly when its status differs, whether or not its amount changed; a key
\* present in one snapshot only has none.
C9_StatusChanges ==
    Compared =>
        /\ \A k \in DOMAIN PrevPhases \cup DOMAIN CurPhases :
              Count(PhaseKeysOf(changes.validation.phase_status_changes), k) =
                  IF /\ k \in DOMAIN PrevPhases \cap DOMAIN CurPhases
                     /\ PrevPhases[k].status # CurPhases[k].status
                  THEN 1 ELSE 0
        /\ \A i \in DOMAIN changes.validation.phase_status_changes :
              LET c == changes.validation.phase_status_changes[i]
              IN  /\ ChangePhaseKey(c) \in DOMAIN PrevPhases \cap DOMAIN CurPhases
                  /\ c.OldStatus = PrevPhases[ChangePhaseKey(c)].status
                  /\ c.NewStatus = CurPhases[ChangePhaseKey(c)].status

\* C9 witness: a phase changed its status and kept its amount.
C9_Witness ==
    /\ Compared
    /\ \E i \in DOMAIN changes.validation.phase_status_changes :
          LET k == ChangePhaseKey(changes.validation.phase_status_changes[i])
          IN  AmountIn(PrevPhases, k) = AmountIn(CurPhases, k)

FailedKeys == {failed[n] : n \in DOMAIN failed}

\* Every request for key k raised a transient error.
AlwaysTransient(k) == \A n \in DOMAIN errors[k] : errors[k][n] = "timeout"

\* C10: a project whose every request raises a transient error is given up
\* after exactly retry_count + 1 requests: the first and retry_count retries.
C10_Original ==
    \A k \in FailedKeys : AlwaysTransient(k) => calls[k] = retry_count + 1

\* ------------------------------------------------------------------- C11
ListKeys == {projects[n] : n \in DOMAIN projects}
ProcessedKeys == {processed_data[n].ProjectKey : n \in DOMAIN processed_data}

\* The records of the projects of the list that were not given up, in list
\* order.
RECURSIVE SucceededRecords(_)
SucceededRecords(n) ==
    IF n = 0 THEN <<>>
    ELSE IF projects[n] \in FailedKeys
         THEN SucceededRecords(n - 1)
         ELSE Append(SucceededRecords(n - 1), ProjectDetails(projects[n]))

\* C11: when process_projects_in_batches returns, every project of the list
\* has been requested, the ones given up after their last attempt included,
\* and processed_data holds the records of exactly the projects that were
\* not given up.
C11_FailedUnitsDropped ==
    pc = "save" =>
        /\ \A k \in ListKeys : calls[k] >= 1
        /\ processed_data = SucceededRecords(Len(projects))
        /\ ProcessedKeys = ListKeys \ FailedKeys

\* A run that gave up its first project and fetched a later one.
C11_Witness ==
    /\ pc = "save"
    /\ Len(projects) >= 2
    /\ projects[1] \in FailedKeys
    /\ \E n \in 2..Len(projects) : projects[n] \in ProcessedKeys

\* ------------------------------------------------------------------- C12
\* C12: a run that returns with projects given up surfaces, with its result,
\* a failure count equal to the number of projects given up: in the value
\* returned or among the counts printed.
C12_Original ==
    (pc = "save" /\ failed # <<>>) =>
        \/ /\ "failed_count" \in DOMAIN ProcessReturn
           /\ ProcessReturn["failed_count"] = Len(failed)
        \/ \E line \in ProcessConsole :
              /\ line.what \notin {"Processing projects",
                                   "Successfully processed projects"}
              /\ line.count = Len(failed)

\* ------------------------------------------------------------------- C13
\* Some request for key k raised a non-transient error.
RaisedAuth(k) == \E n \in DOMAIN errors[k] : errors[k][n] = "auth"

\* C13: a non-transient error is not retried and aborts the run: once a
\* request has raised one, main has exited, that request was the last one
\* sent for its project, and no later project of the list is requested.
C13_Original ==
    \A n \in DOMAIN projects :
        RaisedAuth(projects[n]) =>
            /\ pc = "exit1"
            /\ errors[projects[n]][Len(errors[projects[n]])] = "auth"
            /\ calls[projects[n]] = Len(errors[projects[n]])
            /\ \A later \in (n + 1)..Len(projects) : calls[projects[later]] = 0

\* ------------------------------------------------------------------- C14
\* C14: the projects are fetched one after the other, so for any
\* concurrency k >= 1 at most k requests await their response: never more
\* than one request is pending, and none while a backoff or the pause
\* between batches is being slept.
C14_BoundedConcurrency ==
    /\ in_flight <= 1
    /\ pc \in {"backoff", "batch_sleep"} => in_flight = 0

\* A request is pending after an earlier project went through a backoff and
\* a batch was completed.
C14_Witness ==
    /\ in_flight = 1
    /\ batch_pauses >= 1
    /\ \E n \in DOMAIN sleeps : sleeps[n].key # project_key

\* ------------------------------------------------------------------- C15
\* The records one batch holding the whole list yields when every project is
\* fetched.
SingleGroupRecords == [n \in DOMAIN projects |-> ProjectDetails(projects[n])]

\* C15: whatever the batch size, when no project is given up the records
\* returned are those of one batch holding the whole list, as a set and in
\* the order of the list.
C15_PartitionIndependent ==
    (pc = "save" /\ failed = <<>>) =>
        /\ processed_data = SingleGroupRecords
        /\ {processed_data[n] : n \in DOMAIN processed_data}
              = {ProjectDetails(k) : k \in ListKeys}

\* A list cut into several batches, the last one short, was fetched whole.
C15_Witness ==
    /\ pc = "save"
    /\ failed = <<>>
    /\ batch_size = 2
    /\ batch_pauses >= 1
    /\ Len(projects) = 3
    /\ Len(processed_data) = 3

\* ------------------------------------------------------------------- C16
\* The backoff sleeps taken for key k, in order.
SleepsOf(k) == SelectSeq(sleeps, LAMBDA sl : sl.key = k)

\* The failed attempts of key k that are followed by a backoff sleep: all of
\* them, but the last one of a project given up and the one whose sleep has
\* not started yet.
SleptFailures(k) ==
    Len(errors[k]) - (IF k \in FailedKeys THEN 1 ELSE 0)
                   - (IF pc = "backoff" /\ project_key = k THEN 1 ELSE 0)

\* C16: the sleep that follows the failed attempt n of a project lasts
\* retry_delay * n, so the delays of one project grow strictly from retry to
\* retry, and no sleep follows the last failed attempt of a project given up.
C16_LinearBackoff ==
    \A k \in ListKeys :
        /\ Len(SleepsOf(k)) = SleptFailures(k)
        /\ \A n \in DOMAIN SleepsOf(k) :
              /\ SleepsOf(k)[n].attempt = n
              /\ SleepsOf(k)[n].delay = retry_delay * n
              /\ n > 1 => SleepsOf(k)[n].delay > SleepsOf(k)[n - 1].delay
        /\ k \in FailedKeys => Len(SleepsOf(k)) = Len(errors[k]) - 1

\* A project was given up after two backoff sleeps, and the run went on.
C16_Witness ==
    \E k \in FailedKeys :
        /\ Len(SleepsOf(k)) = 2
        /\ SleepsOf(k)[2].delay > SleepsOf(k)[1].delay
        /\ pc = "save"

\* ------------------------------------------------------------------- C17
\* The attempt counter and the requests sent for each project stay within
\* retry_count, and a running fetch has sent as many requests as its
\* attempt counter says.
AttemptsBounded ==
    /\ attempt \in 1..retry_count
    /\ \A k \in ListKeys : calls[k] <= retry_count
    /\ pc = "await" => calls[project_key] = attempt

\* A retry raises the attempt counter by one, and nothing else changes it
\* but the start of the next project's fetch, which sets it to 1.
AttemptIncreases ==
    /\ pc = "backoff" => attempt' = attempt + 1 /\ pc' = "request"
    /\ attempt' # attempt => pc = "backoff" \/ attempt' = 1

\* C17: whatever errors the requests raise, the attempts of one project are
\* at most retry_count, the attempt counter grows by one at each retry, and
\* every fetch_project_details, hence process_projects_in_batches, returns.
C17_RetryTerminates ==
    /\ []AttemptsBounded
    /\ [][AttemptIncreases]_vars
    /\ <>(pc = "save")

\* Every project of a full list was given up after retry_count attempts, and
\* the fetch returned.
C17_Witness ==
    /\ pc = "save"
    /\ Len(projects) = MaxProjects
    /\ \A k \in ListKeys : k \in FailedKeys /\ calls[k] = retry_count

\* ------------------------------------------------------------------- C18
\* This run's rotation is done and its commit is not.
Rotated == run_log = <<"backup">>

\* C18, as claimed: in every run the rotation comes once, before the commit,
\* which comes at most once; once the rotation is done and until the commit,
\* previous_data is exactly what new_data held when the run started and
\* new_data is gone; and that is the previous_data the comparison reads.
C18_Original ==
    /\ run_log \in {<<>>, <<"backup">>, <<"backup", "commit">>}
    /\ Rotated => /\ previous_data = start_files.new
                  /\ new_data = NoFile
    /\ pc = "compare" => previous_data = start_files.new

\* C18: in every run the rotation comes once, before the commit, which comes
\* at most once. When the run started with a new_data file, after the
\* rotation previous_data is exactly what new_data held and new_data is
\* gone; when it started without one (a first run, or a run after one that
\* ended between its rotation and its commit) the rotation touches nothing
\* and previous_data stays what it was. The comparison reads that
\* previous_data, whole.
C18_Rotation ==
    /\ run_log \in {<<>>, <<"backup">>, <<"backup", "commit">>}
    /\ Rotated => /\ new_data = NoFile
                  /\ previous_data = IF start_files.new.exists
                                     THEN start_files.new
                                     ELSE start_files.previous
    /\ pc = "compare" =>
          /\ run_log = <<"backup", "commit">>
          /\ previous_data = IF start_files.new.exists
                             THEN start_files.new
                             ELSE start_files.previous

\* A rotation that replaced an older previous_data by a different new_data.
C18_Witness ==
    /\ Rotated
    /\ start_files.new.exists
    /\ start_files.previous.exists
    /\ start_files.previous # start_files.new
    /\ previous_data = start_files.new

\* ------------------------------------------------------------------- C19
\* The keys of the rows of the Projects sheet of a workbook.
ProjectRowKeys(wb) == [i \in DOMAIN wb.Projects |-> ProjectKey(wb.Projects[i])]

\* The amount of the last row of `rows` whose key is k.
LastRowAmount(rows, keys, k) ==
    OrZero(rows[CHOOSE i \in DOMAIN keys :
                   keys[i] = k /\ \A j \in DOMAIN keys : j > i => keys[j] # k].Amount)

\* Some message of the comparison flags project key k as a duplicate.
ProjectDuplicateFlagged(k) ==
    \E m \in CompareMessages(previous_data, changes) :
        /\ m.project = k
        /\ m.what \notin {"Project Change Detected", "Missing Phase", "Phase Change"}

\* C19: when a key occurs twice in a snapshot's Projects sheet the run does
\* not fail and the comparison uses the last occurrence (every record for
\* the key carries the amounts of the last rows, and there is one exactly
\* when those differ), and the duplicate key is flagged in what the
\* comparison reports.
C19_Original ==
    /\ pc # "exit1"
    /\ (Compared /\ previous_data.exists) =>
          \A k \in ProjectIDs :
              (Count(ProjectRowKeys(new_data), k) >= 2
               /\ Count(ProjectRowKeys(previous_data), k) >= 2) =>
                  LET old == LastRowAmount(previous_data.Projects,
                                           ProjectRowKeys(previous_data), k)
                      new == LastRowAmount(new_data.Projects,
                                           ProjectRowKeys(new_data), k)
                  IN  /\ Count(ProjectKeysOf(changes.projects), k)
                            = IF old # new THEN 1 ELSE 0
                      /\ \A i \in DOMAIN changes.projects :
                            changes.projects[i].ID = k =>
                                /\ changes.projects[i].OldAmount = old
                                /\ changes.projects[i].NewAmount = new
                      /\ ProjectDuplicateFlagged(k)

\* ------------------------------------------------------------------- C20
\* The phase changes whose project has a project change, in list order.
ClaimedFiltered ==
    SelectSeq(changes.phases,
              LAMBDA ph : \E i \in DOMAIN changes.projects :
                             changes.projects[i].ID = ph.ProjectID)

\* C20: the rows of the "Filtered Phase Changes" sheet are the phase changes
\* whose Project ID is the ID of some project change, a sub-list of the phase
\* changes, and the console summary and the window's summary count those
\* same changes.
C20_FilteredPhaseChanges ==
    /\ pc \in {"report", "display", "done"} =>
          console.filtered_phase_changes = Len(ClaimedFiltered)
    /\ pc \in {"display", "done"} =>
          /\ PhaseKeysOf(report.FilteredPhaseChanges) = PhaseKeysOf(ClaimedFiltered)
          /\ \A i \in DOMAIN report.FilteredPhaseChanges :
                \E j \in DOMAIN changes.phases :
                    /\ ChangePhaseKey(changes.phases[j])
                          = ChangePhaseKey(report.FilteredPhaseChanges[i])
                    /\ changes.phases[j].Change = report.FilteredPhaseChanges[i].Change
    /\ pc = "done" =>
          /\ gui.filtered_phase_changes = Len(report.FilteredPhaseChanges)
          /\ gui.filtered_phase_changes = console.filtered_phase_changes

\* Two phase changes, one of a changed project and one of a project with no
\* project change: the filter keeps the first only.
C20_Witness ==
    /\ pc = "done"
    /\ Len(changes.phases) = 2
    /\ Len(changes.projects) = 1
    /\ Len(report.FilteredPhaseChanges) = 1
    /\ gui.filtered_phase_changes = 1

\* ------------------------------------------------------------------- C21
\* The workbook last saved is still on disk, as new_data or as
\* previous_data.
LastSavedKept ==
    last_saved.exists => new_data = last_saved \/ previous_data = last_saved

\* previous_data changes only in backup_current_data, and only when a
\* new_data file exists.
PreviousOverwrittenOnlyWithCurrent ==
    previous_data' # previous_data => pc = "backup" /\ new_data.exists

\* C21: over any sequence of runs, each ending normally or with an exception
\* at any step (in the rotation before the remove or between the remove and
\* the rename, in the session creation, the project list, the save, the
\* comparison or later), the workbook last saved is never lost, and the
\* rotation touches previous_data only when a new_data file exists.
C21_SnapshotNeverLost ==
    /\ []LastSavedKept
    /\ [][PreviousOverwrittenOnlyWithCurrent]_vars

\* A run ended between the remove and the rename of its rotation: the older
\* previous_data is gone and the workbook last saved is still new_data.
C21_Witness ==
    /\ pc = "exit1"
    /\ run_log = <<>>
    /\ start_files.previous.exists
    /\ start_files.previous # start_files.new
    /\ previous_data = NoFile
    /\ new_data = last_saved
    /\ last_saved.exists

\* ------------------------------------------------------------------- C22
\* The position in the list of the project a record of processed_data is of.
PositionOf(record) == CHOOSE n \in DOMAIN projects : projects[n] = record.ProjectKey

\* The projects are taken in list order, one at a time: a project that was
\* requested has all the projects before it fetched or given up, and the
\* records are in list order, each project at most once.
InInputOrder ==
    /\ in_flight <= 1
    /\ \A n \in DOMAIN projects :
          calls[projects[n]] > 0 =>
              \A m \in 1..(n - 1) :
                  projects[m] \in ProcessedKeys \cup FailedKeys
    /\ \A i \in DOMAIN processed_data :
          /\ processed_data[i].ProjectKey \in ListKeys
          /\ \A j \in DOMAIN processed_data :
                i < j => PositionOf(processed_data[i]) < PositionOf(processed_data[j])

\* A request is never sent for a project once a later project of the list
\* has been requested.
NoRequestOutOfOrder ==
    \A n \in DOMAIN projects :
        calls'[projects[n]] # calls[projects[n]] =>
            \A m \in (n + 1)..Len(projects) : calls[projects[m]] = 0

\* C22: process_projects_in_batches fetches the projects strictly one after
\* the other in list order, and processed_data lists the projects fetched in
\* list order, each at most once, retries or not.
C22_SequentialInOrder ==
    /\ []InInputOrder
    /\ [][NoRequestOutOfOrder]_vars

\* Three projects: the first fetched at a retry, the second given up, the
\* third fetched; the result holds the first and the third, once each.
C22_Witness ==
    /\ pc = "save"
    /\ Len(projects) = 3
    /\ errors[projects[1]] # <<>>
    /\ projects[2] \in FailedKeys
    /\ processed_data = <<ProjectDetails(projects[1]), ProjectDetails(projects[3])>>

\* ------------------------------------------------------------------- C23
\* The phase keys of the previous snapshot that the current one lacks.
DisappearedPhases == DOMAIN PrevPhases \ DOMAIN CurPhases

\* The phase change records of key k.
PhaseChangesOf(k) ==
    SelectSeq(changes.phases, LAMBDA c : ChangePhaseKey(c) = k)

\* C23: a phase of the previous snapshot absent from the current one has a
\* missing_phases entry; with a nonzero old amount it also has one phase
\* change record, whose new amount is 0, whose change is minus the old
\* amount and whose description and status are "N/A"; with an old amount
\* of 0 or an empty one it has no phase change record.
C23_DisappearedPhase ==
    Compared =>
        \A k \in DisappearedPhases :
            /\ Count(PhaseKeysOf(changes.validation.missing_phases), k) = 1
            /\ IF AmountIn(PrevPhases, k) # 0
               THEN /\ Len(PhaseChangesOf(k)) = 1
                    /\ PhaseChangesOf(k)[1].OldAmount = AmountIn(PrevPhases, k)
                    /\ PhaseChangesOf(k)[1].NewAmount = 0
                    /\ PhaseChangesOf(k)[1].Change = 0 - AmountIn(PrevPhases, k)
                    /\ PhaseChangesOf(k)[1].Description = "N/A"
                    /\ PhaseChangesOf(k)[1].Status = "N/A"
               ELSE PhaseChangesOf(k) = <<>>

\* A phase with a negative amount disappeared while another phase appeared:
\* the disappeared one has its missing_phases entry and its "N/A" record.
C23_Witness ==
    /\ Compared
    /\ \E k \in DisappearedPhases :
          /\ AmountIn(PrevPhases, k) < 0
          /\ Len(PhaseChangesOf(k)) = 1
          /\ PhaseChangesOf(k)[1].Status = "N/A"
          /\ Len(changes.validation.missing_phases) = 1
    /\ Len(changes.phases) = 2

====
